---- MODULE Spec2Model ----
(***************************************************************************)
(* Model of rio_tiler_circle.reader.COGReader.tile                          *)
(* (src/rio_tiler_circle/reader.py).                                        *)
(*                                                                          *)
(* Numbers.  tile_buffer is held in tenths (0.5 is 5, 0.3 is 3, 1.2 is 12). *)
(* Coordinates are integers; the tiling schemes of the model have tile      *)
(* extents that are multiples of 512 and the tile sizes are 128 and 256, so *)
(* every quotient and product the method computes on the way to the         *)
(* bounding box, the center and the radius is an integer (and is exact in   *)
(* IEEE doubles as well).  math.cos and math.sin are tabulated in           *)
(* thousandths, truncated toward zero; a vertex coordinate is held in       *)
(* thousandths of a coordinate unit.                                        *)
(*                                                                          *)
(* Objects.  A Python dict passed as vrt_options is an object on the heap,  *)
(* named by a reference; two calls given the same reference act on the same *)
(* object.  An optional value is a sequence: <<>> is None, <<v>> is v.      *)
(***************************************************************************)
EXTENDS Integers, Sequences, FiniteSets, TLC

VARIABLES
    tms,          \* the reader's tiling scheme (self.tms)
    heap,         \* dict objects: reference -> <<>> (no object) or <<contents>>
    pc,           \* per call: position in COGReader.tile
    args,         \* per call: the arguments of the call
    tile_bounds,  \* per call: local tile_bounds, <<left, bottom, right, top>>
    tilesize,     \* per call: local tilesize
    feat,         \* per call: feat["geometry"]["coordinates"][0]
    cutline,      \* per call: local cutline
    kwargs,       \* per call: local kwargs
    vrt_options,  \* per call: local vrt_options, a reference into heap
    trace,        \* per call: the collaborators invoked so far, in order
    outcome,      \* per call: "" (running), "ok" or the error raised
    partCall,     \* per call: the arguments self.part was invoked with
    before        \* per call: contents of the caller's vrt_options at call time

vars == <<tms, heap, pc, args, tile_bounds, tilesize, feat, cutline, kwargs,
          vrt_options, trace, outcome, partCall, before>>

----------------------------------------------------------------------------
(* Bounds of the model *)

MaxCoord == 1
MaxHalfSteps == 10

(* Program constants *)

DefaultTileSize == 256
Half == 5
AngleStart == 0
AngleStop == 360
AngleStep == 10

\* the calls (threads), and the dict objects: those the callers own and, for
\* each call, the {} its frame creates when no vrt_options was passed
Procs == {"t1", "t2"}
CallerDicts == {"d1", "d2"}
FreshDict(p) == p
Refs == CallerDicts \cup {FreshDict(p) : p \in Procs}
None == <<>>
Some(v) == <<v>>

TileSizes == {DefaultTileSize \div 2, DefaultTileSize}
InvalidBuffers == {3, 12}
ValidBuffers == {Half * k : k \in 0..MaxHalfSteps}
BufferArgs == {None} \cup {Some(b) : b \in ValidBuffers \cup InvalidBuffers}
TileArgs == {<<x, y, z>> : x \in 0..MaxCoord, y \in 0..MaxCoord, z \in 0..MaxCoord}

EmptyMap == [k \in {} |-> 0]
UserCutline == <<<<0, 0>>, <<1, 0>>, <<0, 1>>>>
UserOptions ==
    { EmptyMap,
      [k \in {"resampling"} |-> "bilinear"],
      [k \in {"resampling", "cutline"} |->
          IF k = "cutline" THEN UserCutline ELSE "nearest"] }
\* indexes, expression and the keyword options other than vrt_options
Plain == [indexes |-> None, expression |-> None, other |-> EmptyMap]
Selections ==
    { Plain,
      [indexes |-> Some(<<1, 2, 3>>), expression |-> Some("b1/b2+b3"),
       other |-> [k \in {"resampling_method"} |-> "cubic"]] }

TileMatrixSets ==
    { [name |-> "square", maxzoom |-> 1, cellw |-> 512, cellh |-> 512],
      [name |-> "wide",   maxzoom |-> 1, cellw |-> 1024, cellh |-> 512],
      [name |-> "tall",   maxzoom |-> 1, cellw |-> 512, cellh |-> 1024] }

----------------------------------------------------------------------------
(* The collaborators of the method: the tiling scheme and the dataset *)

\* self.tms.xy_bounds(Tile(x, y, z)): a quadtree whose origin is the upper
\* left corner (0, 0) and whose tiles at its last zoom level are cellw x cellh.
xy_bounds(t, tile) ==
    LET w == t.cellw * (2^(t.maxzoom - tile[3]))
        h == t.cellh * (2^(t.maxzoom - tile[3]))
        left == tile[1] * w
        top == 0 - tile[2] * h
    IN  <<left, top - h, left + w, top>>

\* self.tile_exists(x, y, z): the dataset covers the western half of the
\* tiling scheme's extent, over its whole height.
tile_exists(t, tile) ==
    /\ tile[3] \in 0..t.maxzoom
    /\ tile[1] \in 0..(2^tile[3] - 1)
    /\ tile[2] \in 0..(2^tile[3] - 1)
    /\ xy_bounds(t, tile)[1] < (t.cellw * 2^t.maxzoom) \div 2

\* rio_tiler.utils.create_cutline(self.dataset, feat, geometry_crs): the
\* cutline describes the ring it was given, vertex by vertex, in order.
create_cutline(ring) == ring

----------------------------------------------------------------------------
(* The arithmetic of the method *)

\* Python's int(): truncation toward zero of the quotient n / d, d > 0
IntTrunc(n, d) == IF n >= 0 THEN n \div d ELSE 0 - ((0 - n) \div d)

\* variant: the remainder is taken modulo 0.1
BufferRemainderTenth(b) == b % 1

\* tile_buffer % 0.5, on tenths
BufferRemainder(b) == b % Half

\* x_res = (right - left) / tilesize and y_res = (top - bottom) / tilesize
Res(lo, hi, size) == (hi - lo) \div size

\* variant: the right and top edges move the same way as the left and bottom
BufferedBoundsShifted(bb, size, b) ==
    LET x_res == Res(bb[1], bb[3], size)
        y_res == Res(bb[2], bb[4], size)
    IN  << bb[1] - (x_res * b) \div 10,
           bb[2] - (y_res * b) \div 10,
           bb[3] - (x_res * b) \div 10,
           bb[4] - (y_res * b) \div 10 >>

\* BoundingBox(left - x_res * tile_buffer, ..., top + y_res * tile_buffer)
BufferedBounds(bb, size, b) ==
    LET x_res == Res(bb[1], bb[3], size)
        y_res == Res(bb[2], bb[4], size)
    IN  << bb[1] - (x_res * b) \div 10,
           bb[2] - (y_res * b) \div 10,
           bb[3] + (x_res * b) \div 10,
           bb[4] + (y_res * b) \div 10 >>

\* variant: tilesize += 2 * int(tile_buffer)
BufferedTileSizeFloorFirst(size, b) == size + 2 * IntTrunc(b, 10)

\* tilesize += int(tile_buffer * 2)
BufferedTileSize(size, b) == size + IntTrunc(b * 2, 10)

\* math.cos(math.radians(theta)) for theta in 0..90 step 10, in thousandths
CosTable ==
    [d \in {0, 10, 20, 30, 40, 50, 60, 70, 80, 90} |->
        CASE d = 0 -> 1000 [] d = 10 -> 984 [] d = 20 -> 939 [] d = 30 -> 866
          [] d = 40 -> 766 [] d = 50 -> 642 [] d = 60 -> 500 [] d = 70 -> 342
          [] d = 80 -> 173 [] d = 90 -> 0]

Unit == CosTable[0]

Cos(theta) ==
    LET d == theta % 360
    IN  IF d <= 90 THEN CosTable[d]
        ELSE IF d <= 180 THEN 0 - CosTable[180 - d]
        ELSE IF d <= 270 THEN 0 - CosTable[d - 180]
        ELSE CosTable[360 - d]

Sin(theta) == Cos(theta + 270)

\* center = ((tile_bounds[0] + tile_bounds[2]) / 2, (tile_bounds[1] + tile_bounds[3]) / 2)
Center(bb) == << (bb[1] + bb[3]) \div 2, (bb[2] + bb[4]) \div 2 >>

\* variant: the radius is half the height of the box
RadiusFromHeight(bb) == (bb[4] - bb[2]) \div 2

\* radius = (tile_bounds[2] - tile_bounds[0]) / 2
Radius(bb) == (bb[3] - bb[1]) \div 2

\* variant: range(0, 360 + 10, 10), which repeats the first vertex
ThetasClosed ==
    [i \in 1..((AngleStop - AngleStart) \div AngleStep + 1) |->
        AngleStart + (i - 1) * AngleStep]

\* range(0, 360, 10)
Thetas ==
    [i \in 1..((AngleStop - AngleStart + AngleStep - 1) \div AngleStep) |->
        AngleStart + (i - 1) * AngleStep]

\* [x, y] for one theta, in thousandths
Vertex(center, radius, theta) ==
    << center[1] * Unit + radius * Cos(theta),
       center[2] * Unit + radius * Sin(theta) >>

\* the ring after the loop: one vertex appended per theta, in order
CircleRing(bb) ==
    [i \in 1..Len(Thetas) |-> Vertex(Center(bb), Radius(bb), Thetas[i])]

----------------------------------------------------------------------------
(* Dicts *)

Has(m, k) == k \in DOMAIN m
Without(m, k) == [j \in DOMAIN m \ {k} |-> m[j]]
With(m, k, v) == [j \in DOMAIN m \cup {k} |-> IF j = k THEN v ELSE m[j]]

\* variant: vrt_options.setdefault("cutline", cutline)
DictSetDefault(m, c) == IF Has(m, "cutline") THEN m ELSE With(m, "cutline", c)

\* vrt_options.update({"cutline": cutline})
DictUpdate(m, c) == With(m, "cutline", c)

\* the pass-through options left after kwargs.pop("vrt_options", {})
Popped(kw) == Without(kw, "vrt_options")

Active(p) == pc[p] # "idle"
InUse(d) == \E q \in Procs : Active(q) /\ Has(args[q].kwargs, "vrt_options")
                              /\ args[q].kwargs["vrt_options"] = d

----------------------------------------------------------------------------
Blank == [p \in Procs |-> <<>>]

Init ==
    /\ tms \in TileMatrixSets
    /\ heap = [r \in Refs |-> <<>>]
    /\ pc = [p \in Procs |-> "idle"]
    /\ args = Blank
    /\ tile_bounds = Blank
    /\ tilesize = Blank
    /\ feat = Blank
    /\ cutline = Blank
    /\ kwargs = Blank
    /\ vrt_options = Blank
    /\ trace = Blank
    /\ outcome = [p \in Procs |-> ""]
    /\ partCall = Blank
    /\ before = Blank

\* The caller invokes reader.tile(x, y, z, tilesize, indexes, expression,
\* tile_buffer, **kw).  It passes no vrt_options, or a dict of its own: one
\* it has just built (opts), or the dict another running call was given.
Invoke(p, tile, size, buf, sel, ref, opts) ==
    /\ pc[p] = "idle"
    /\ LET kw == IF ref = None THEN sel.other
                 ELSE With(sel.other, "vrt_options", ref[1])
           h == IF ref = None \/ InUse(ref[1]) THEN heap
                ELSE [heap EXCEPT ![ref[1]] = Some(opts)]
       IN  /\ heap' = h
           /\ args' = [args EXCEPT ![p] =
                  [tile |-> tile, tilesize |-> size, tile_buffer |-> buf,
                   indexes |-> sel.indexes, expression |-> sel.expression,
                   kwargs |-> kw]]
           /\ kwargs' = [kwargs EXCEPT ![p] = Some(kw)]
           /\ before' = [before EXCEPT ![p] =
                  IF ref = None THEN None ELSE h[ref[1]]]
    /\ tilesize' = [tilesize EXCEPT ![p] = Some(size)]
    /\ pc' = [pc EXCEPT ![p] = "exists"]
    /\ trace' = [trace EXCEPT ![p] = <<>>]
    /\ outcome' = [outcome EXCEPT ![p] = ""]
    /\ UNCHANGED <<tms, tile_bounds, feat, cutline, vrt_options, partCall>>

\* variant: the coverage check is made and its answer ignored
CheckExistsIgnored(p) ==
    /\ pc[p] = "exists"
    /\ trace' = [trace EXCEPT ![p] = Append(@, "tile_exists")]
    /\ pc' = [pc EXCEPT ![p] = "bounds"]
    /\ UNCHANGED <<tms, heap, args, tile_bounds, tilesize, feat, cutline,
                   kwargs, vrt_options, outcome, partCall, before>>

\* if not self.tile_exists(tile_x, tile_y, tile_z): raise TileOutsideBounds
CheckExists(p) ==
    /\ pc[p] = "exists"
    /\ trace' = [trace EXCEPT ![p] = Append(@, "tile_exists")]
    /\ IF tile_exists(tms, args[p].tile)
       THEN /\ pc' = [pc EXCEPT ![p] = "bounds"]
            /\ UNCHANGED outcome
       ELSE /\ pc' = [pc EXCEPT ![p] = "raised"]
            /\ outcome' = [outcome EXCEPT ![p] = "TileOutsideBounds"]
    /\ UNCHANGED <<tms, heap, args, tile_bounds, tilesize, feat, cutline,
                   kwargs, vrt_options, partCall, before>>

\* tile_bounds = self.tms.xy_bounds(Tile(x=tile_x, y=tile_y, z=tile_z))
TileBounds(p) ==
    /\ pc[p] = "bounds"
    /\ trace' = [trace EXCEPT ![p] = Append(@, "xy_bounds")]
    /\ tile_bounds' = [tile_bounds EXCEPT ![p] = xy_bounds(tms, args[p].tile)]
    /\ pc' = [pc EXCEPT ![p] = "buffer"]
    /\ UNCHANGED <<tms, heap, args, tilesize, feat, cutline, kwargs,
                   vrt_options, outcome, partCall, before>>

\* if tile_buffer is not None: validate it, buffer the bounds and the size
ApplyBuffer(p) ==
    /\ pc[p] = "buffer"
    /\ LET buf == args[p].tile_buffer
       IN  IF buf = None
           THEN /\ pc' = [pc EXCEPT ![p] = "circle"]
                /\ UNCHANGED <<tile_bounds, tilesize, outcome>>
           ELSE IF BufferRemainder(buf[1]) # 0
           THEN /\ pc' = [pc EXCEPT ![p] = "raised"]
                /\ outcome' = [outcome EXCEPT ![p] = "IncorrectTileBuffer"]
                /\ UNCHANGED <<tile_bounds, tilesize>>
           ELSE /\ tile_bounds' = [tile_bounds EXCEPT ![p] =
                       BufferedBounds(@, tilesize[p][1], buf[1])]
                /\ tilesize' = [tilesize EXCEPT ![p] =
                       Some(BufferedTileSize(@[1], buf[1]))]
                /\ pc' = [pc EXCEPT ![p] = "circle"]
                /\ UNCHANGED outcome
    /\ UNCHANGED <<tms, heap, args, feat, cutline, kwargs, vrt_options,
                   trace, partCall, before>>

\* center, radius, feat and the loop over theta
BuildCircle(p) ==
    /\ pc[p] = "circle"
    /\ feat' = [feat EXCEPT ![p] = CircleRing(tile_bounds[p])]
    /\ pc' = [pc EXCEPT ![p] = "cutline"]
    /\ UNCHANGED <<tms, heap, args, tile_bounds, tilesize, cutline, kwargs,
                   vrt_options, trace, outcome, partCall, before>>

\* cutline = create_cutline(self.dataset, feat, geometry_crs=self.tms.rasterio_crs)
CreateCutline(p) ==
    /\ pc[p] = "cutline"
    /\ trace' = [trace EXCEPT ![p] = Append(@, "create_cutline")]
    /\ cutline' = [cutline EXCEPT ![p] = Some(create_cutline(feat[p]))]
    /\ pc' = [pc EXCEPT ![p] = "pop"]
    /\ UNCHANGED <<tms, heap, args, tile_bounds, tilesize, feat, kwargs,
                   vrt_options, outcome, partCall, before>>

\* vrt_options = kwargs.pop("vrt_options", {})
PopOptions(p) ==
    /\ pc[p] = "pop"
    /\ IF Has(kwargs[p][1], "vrt_options")
       THEN /\ vrt_options' = [vrt_options EXCEPT ![p] =
                   Some(kwargs[p][1]["vrt_options"])]
            /\ UNCHANGED heap
       ELSE /\ vrt_options' = [vrt_options EXCEPT ![p] = Some(FreshDict(p))]
            /\ heap' = [heap EXCEPT ![FreshDict(p)] = Some(EmptyMap)]
    /\ kwargs' = [kwargs EXCEPT ![p] = Some(Popped(@[1]))]
    /\ pc' = [pc EXCEPT ![p] = "update"]
    /\ UNCHANGED <<tms, args, tile_bounds, tilesize, feat, cutline, trace,
                   outcome, partCall, before>>

\* vrt_options.update({"cutline": cutline})
UpdateOptions(p) ==
    /\ pc[p] = "update"
    /\ heap' = [heap EXCEPT ![vrt_options[p][1]] =
                   Some(DictUpdate(@[1], cutline[p][1]))]
    /\ pc' = [pc EXCEPT ![p] = "part"]
    /\ UNCHANGED <<tms, args, tile_bounds, tilesize, feat, cutline, kwargs,
                   vrt_options, trace, outcome, partCall, before>>

\* variant: the width is the tile size the caller asked for
PartArgumentsUnbufferedWidth(p) ==
    [bounds |-> tile_bounds[p],
     height |-> tilesize[p][1],
     width |-> args[p].tilesize,
     max_size |-> None,
     bounds_crs |-> None,
     indexes |-> args[p].indexes,
     expression |-> args[p].expression,
     vrt_options |-> heap[vrt_options[p][1]][1],
     kwargs |-> kwargs[p][1]]

\* the arguments of return self.part(tile_bounds, ..., **kwargs)
PartArguments(p) ==
    [bounds |-> tile_bounds[p],
     height |-> tilesize[p][1],
     width |-> tilesize[p][1],
     max_size |-> None,
     bounds_crs |-> None,
     indexes |-> args[p].indexes,
     expression |-> args[p].expression,
     vrt_options |-> heap[vrt_options[p][1]][1],
     kwargs |-> kwargs[p][1]]

\* return self.part(...): the read succeeds, or its error propagates
ReadPart(p, result) ==
    /\ pc[p] = "part"
    /\ trace' = [trace EXCEPT ![p] = Append(@, "part")]
    /\ partCall' = [partCall EXCEPT ![p] = Some(PartArguments(p))]
    /\ outcome' = [outcome EXCEPT ![p] = result]
    /\ pc' = [pc EXCEPT ![p] = IF result = "ok" THEN "done" ELSE "raised"]
    /\ UNCHANGED <<tms, heap, args, tile_bounds, tilesize, feat, cutline,
                   kwargs, vrt_options, before>>

\* The caller takes the result (or the error); the frame of the call, and
\* every dict no running call refers to any more, is dropped.
Finish(p) ==
    /\ pc[p] \in {"done", "raised"}
    /\ pc' = [pc EXCEPT ![p] = "idle"]
    /\ heap' = [r \in Refs |->
                  IF r = FreshDict(p) THEN <<>>
                  ELSE IF \E q \in Procs \ {p} :
                            /\ Active(q)
                            /\ Has(args[q].kwargs, "vrt_options")
                            /\ args[q].kwargs["vrt_options"] = r
                       THEN heap[r]
                  ELSE IF r \in CallerDicts THEN <<>> ELSE heap[r]]
    /\ args' = [args EXCEPT ![p] = <<>>]
    /\ tile_bounds' = [tile_bounds EXCEPT ![p] = <<>>]
    /\ tilesize' = [tilesize EXCEPT ![p] = <<>>]
    /\ feat' = [feat EXCEPT ![p] = <<>>]
    /\ cutline' = [cutline EXCEPT ![p] = <<>>]
    /\ kwargs' = [kwargs EXCEPT ![p] = <<>>]
    /\ vrt_options' = [vrt_options EXCEPT ![p] = <<>>]
    /\ trace' = [trace EXCEPT ![p] = <<>>]
    /\ outcome' = [outcome EXCEPT ![p] = ""]
    /\ partCall' = [partCall EXCEPT ![p] = <<>>]
    /\ before' = [before EXCEPT ![p] = <<>>]
    /\ UNCHANGED tms

\* One call at a time, over the whole range of arguments
Call(p) ==
    /\ \A q \in Procs : pc[q] = "idle"
    /\ \E tile \in TileArgs, size \in TileSizes, buf \in BufferArgs,
          sel \in Selections,
          ref \in {None} \cup {Some(d) : d \in CallerDicts},
          opts \in UserOptions :
          /\ ref = None => opts = EmptyMap
          /\ Invoke(p, tile, size, buf, sel, ref, opts)

\* A call that may overlap another one
ConcurrentCall(p) ==
    \E tile \in {t \in TileArgs : t[3] = tms.maxzoom},
       buf \in {None, Some(Half)}, ref \in {None, Some("d1")} :
       Invoke(p, tile, DefaultTileSize, buf, Plain, ref,
              [k \in {"resampling"} |-> "bilinear"])

Step(p) ==
    \/ CheckExists(p)
    \/ TileBounds(p)
    \/ ApplyBuffer(p)
    \/ BuildCircle(p)
    \/ CreateCutline(p)
    \/ PopOptions(p)
    \/ UpdateOptions(p)
    \/ \E result \in {"ok", "ReadError"} : ReadPart(p, result)
    \/ Finish(p)

Next == \E p \in Procs : Call(p) \/ Step(p)

Spec == Init /\ [][Next]_vars

ConcInit == Init /\ tms.name = "square"

ConcNext == \E p \in Procs : ConcurrentCall(p) \/ Step(p)

ConcSpec == ConcInit /\ [][ConcNext]_vars

----------------------------------------------------------------------------
(* Properties *)

Finished(p) == pc[p] \in {"done", "raised"}
Covered(p) == tile_exists(tms, args[p].tile)
Invoked(p, name) == \E i \in 1..Len(trace[p]) : trace[p][i] = name
Given(p) == args[p].tile_buffer # None
Buffer(p) == args[p].tile_buffer[1]
MultipleOfHalf(b) == \E k \in 0..(2 * b) : 10 * k = 2 * b
Unbuffered(p) == xy_bounds(tms, args[p].tile)

\* C1: a call for a tile the dataset does not cover fails with
\* TileOutsideBounds whatever its other arguments are, and the coverage
\* check is all it does: xy_bounds, create_cutline and part are not invoked.
C1_OutsideFailsFirst ==
    \A p \in Procs :
        (Active(p) /\ ~Covered(p)) =>
            /\ pc[p] \in {"exists", "raised"}
            /\ pc[p] = "exists" => trace[p] = <<>>
            /\ pc[p] = "raised" =>
                  /\ outcome[p] = "TileOutsideBounds"
                  /\ trace[p] = <<"tile_exists">>
            /\ partCall[p] = None

C1_Witness ==
    \E p \in Procs :
        /\ pc[p] = "raised"
        /\ ~Covered(p)
        /\ args[p].tile_buffer = Some(3)
        /\ outcome[p] = "TileOutsideBounds"

\* C2 as stated: every call whose tile_buffer is given and is not a multiple
\* of 0.5 fails with IncorrectTileBuffer, without create_cutline or part.
C2_Original ==
    \A p \in Procs :
        (Finished(p) /\ Given(p) /\ ~MultipleOfHalf(Buffer(p))) =>
            /\ outcome[p] = "IncorrectTileBuffer"
            /\ ~Invoked(p, "create_cutline")
            /\ ~Invoked(p, "part")

\* C2 amended: every call for a covered tile whose tile_buffer is given and
\* is not a multiple of 0.5 fails with IncorrectTileBuffer, and neither
\* create_cutline nor part is invoked in it.
C2_InvalidBufferFails ==
    \A p \in Procs :
        (Active(p) /\ Covered(p) /\ Given(p) /\ ~MultipleOfHalf(Buffer(p))) =>
            /\ pc[p] \in {"exists", "bounds", "buffer", "raised"}
            /\ pc[p] = "raised" => outcome[p] = "IncorrectTileBuffer"
            /\ ~Invoked(p, "create_cutline")
            /\ ~Invoked(p, "part")
            /\ partCall[p] = None

C2_Witness ==
    \E p \in Procs :
        /\ pc[p] = "raised"
        /\ Covered(p)
        /\ args[p].tile_buffer = Some(12)
        /\ outcome[p] = "IncorrectTileBuffer"

\* C3 as stated: for a tile_buffer that is a multiple of 0.5 in [0, 5] the
\* height and width of the read are tilesize + 2 * floor(tile_buffer).
C3_Original ==
    \A p \in Procs :
        (partCall[p] # None /\ Given(p) /\ Buffer(p) \in 0..50) =>
            /\ partCall[p][1].height = args[p].tilesize + 2 * (Buffer(p) \div 10)
            /\ partCall[p][1].width = args[p].tilesize + 2 * (Buffer(p) \div 10)

\* C3 amended: for a tile_buffer that is a multiple of 0.5 in [0, 5] the
\* height and width of the read are tilesize + floor(2 * tile_buffer).
C3_OutputSize ==
    \A p \in Procs :
        (partCall[p] # None /\ Given(p) /\ Buffer(p) \in 0..50) =>
            /\ partCall[p][1].height = args[p].tilesize + (2 * Buffer(p)) \div 10
            /\ partCall[p][1].width = args[p].tilesize + (2 * Buffer(p)) \div 10

C3_Witness ==
    \E p \in Procs :
        /\ partCall[p] # None
        /\ args[p].tile_buffer = Some(15)
        /\ partCall[p][1].height = args[p].tilesize + 3

\* C4: the height and the width of the read are equal, and equal to
\* tilesize + 2 * tile_buffer with tile_buffer 0 when omitted: 257 for 0.5
\* and 258 for 1.0 with the default tilesize.
C4_DocumentedSize ==
    \A p \in Procs :
        partCall[p] # None =>
            LET b == IF Given(p) THEN Buffer(p) ELSE 0
                call == partCall[p][1]
            IN  /\ call.height = call.width
                /\ 10 * call.height = 10 * args[p].tilesize + 2 * b
                /\ (args[p].tilesize = 256 /\ b = 0) => call.width = 256
                /\ (args[p].tilesize = 256 /\ b = 5) => call.width = 257
                /\ (args[p].tilesize = 256 /\ b = 10) => call.width = 258

C4_Witness ==
    \E p \in Procs :
        /\ partCall[p] # None
        /\ args[p].tilesize = DefaultTileSize
        /\ args[p].tile_buffer = Some(5)
        /\ partCall[p][1].height = 257
        /\ partCall[p][1].width = 257

StrictlyContains(outer, inner) ==
    /\ outer[1] < inner[1]
    /\ outer[2] < inner[2]
    /\ outer[3] > inner[3]
    /\ outer[4] > inner[4]

\* C5 as stated: for a tile_buffer that is a multiple of 0.5 in [0, 5] the
\* box of the read strictly contains the unbuffered tile bounds.
C5_Original ==
    \A p \in Procs :
        (partCall[p] # None /\ Given(p) /\ Buffer(p) \in 0..50) =>
            StrictlyContains(partCall[p][1].bounds, Unbuffered(p))

\* C5 amended: for a tile_buffer that is a multiple of 0.5 and greater than
\* 0, up to 5, the box of the read strictly contains the unbuffered tile
\* bounds; for a tile_buffer of 0 (and for none) it is the unbuffered box.
C5_BufferedBox ==
    \A p \in Procs :
        partCall[p] # None =>
            /\ (Given(p) /\ Buffer(p) \in 1..50) =>
                  StrictlyContains(partCall[p][1].bounds, Unbuffered(p))
            /\ (~Given(p) \/ Buffer(p) = 0) =>
                  partCall[p][1].bounds = Unbuffered(p)

C5_Witness ==
    \E p \in Procs :
        /\ partCall[p] # None
        /\ args[p].tile_buffer = Some(5)
        /\ partCall[p][1].bounds[4] > Unbuffered(p)[4]

\* C6: the ring handed to create_cutline has exactly 36 vertices, the i-th
\* (i = 0..35) being the sample at 10 * i degrees around the center of the
\* (buffered) box, in that order, and the first vertex is not repeated at
\* the end of the ring.
C6_Ring ==
    \A p \in Procs :
        Invoked(p, "create_cutline") =>
            LET bb == tile_bounds[p]
                cx == (bb[1] + bb[3]) \div 2
                cy == (bb[2] + bb[4]) \div 2
                r == (bb[3] - bb[1]) \div 2
                ring == feat[p]
            IN  /\ Len(ring) = 36
                /\ \A i \in 0..35 :
                      ring[i + 1] = << 1000 * cx + r * Cos(10 * i),
                                       1000 * cy + r * Sin(10 * i) >>
                /\ ring[Len(ring)] # ring[1]

C6_Witness ==
    \E p \in Procs :
        /\ Invoked(p, "create_cutline")
        /\ Given(p)
        /\ Buffer(p) = 5
        /\ Len(feat[p]) = 36
        /\ feat[p][10][2] > 1000 * tile_bounds[p][2]

\* C7: when calls are made one at a time, the vrt_options given to part
\* hold every entry of the caller's vrt_options other than "cutline"
\* unchanged and, as "cutline", the cutline of this call; the other keyword
\* options are forwarded unchanged, and vrt_options is not among them.
C7_MergedOptions ==
    \A p \in Procs :
        partCall[p] # None =>
            LET orig == IF before[p] = None THEN EmptyMap ELSE before[p][1]
                call == partCall[p][1]
                kw == args[p].kwargs
            IN  /\ DOMAIN call.vrt_options = DOMAIN orig \cup {"cutline"}
                /\ \A k \in DOMAIN orig \ {"cutline"} :
                      call.vrt_options[k] = orig[k]
                /\ call.vrt_options["cutline"] = cutline[p][1]
                /\ DOMAIN call.kwargs = DOMAIN kw \ {"vrt_options"}
                /\ \A k \in DOMAIN call.kwargs : call.kwargs[k] = kw[k]

C7_Witness ==
    \E p \in Procs :
        /\ partCall[p] # None
        /\ before[p] # None
        /\ "cutline" \in DOMAIN before[p][1]
        /\ before[p][1]["cutline"] = UserCutline
        /\ partCall[p][1].vrt_options["resampling"] = "nearest"
        /\ partCall[p][1].vrt_options["cutline"] # UserCutline
        /\ "resampling_method" \in DOMAIN partCall[p][1].kwargs

\* C8: with two overlapping calls, each invokes part with the cutline of
\* its own circle, also when both were given the same vrt_options dict.
C8_OwnCutline ==
    \A p \in Procs :
        partCall[p] # None =>
            partCall[p][1].vrt_options["cutline"] =
                create_cutline(CircleRing(tile_bounds[p]))

\* C9: when a call has returned or failed, the vrt_options dict the caller
\* passed has exactly the keys and values it had before the call.
C9_NoMutation ==
    \A p \in Procs :
        (Finished(p) /\ before[p] # None) =>
            heap[args[p].kwargs["vrt_options"]] = before[p]

InBox(v, bb) ==
    /\ 1000 * bb[1] <= v[1]
    /\ v[1] <= 1000 * bb[3]
    /\ 1000 * bb[2] <= v[2]
    /\ v[2] <= 1000 * bb[4]

CenteredInBox(ring, bb) ==
    /\ ring[1][1] + ring[19][1] = 1000 * (bb[1] + bb[3])
    /\ ring[10][2] + ring[28][2] = 1000 * (bb[2] + bb[4])
    /\ 2 * ring[1][2] = 1000 * (bb[2] + bb[4])
    /\ 2 * ring[10][1] = 1000 * (bb[1] + bb[3])

\* C10 as stated: for every box, also one whose height differs from its
\* width, the circle is centered at the box center and every vertex lies
\* within the box.
C10_Original ==
    \A p \in Procs :
        feat[p] # <<>> =>
            /\ CenteredInBox(feat[p], tile_bounds[p])
            /\ \A i \in 1..Len(feat[p]) : InBox(feat[p][i], tile_bounds[p])

\* C10 amended: for every box whose height is not smaller than its width
\* the circle is centered at the box center and every vertex lies within
\* the box.
C10_Inscribed ==
    \A p \in Procs :
        (/\ feat[p] # <<>>
         /\ tile_bounds[p][4] - tile_bounds[p][2]
               >= tile_bounds[p][3] - tile_bounds[p][1]) =>
            /\ CenteredInBox(feat[p], tile_bounds[p])
            /\ \A i \in 1..Len(feat[p]) : InBox(feat[p][i], tile_bounds[p])

C10_Witness ==
    \E p \in Procs :
        /\ feat[p] # <<>>
        /\ tms.name = "tall"
        /\ Given(p)
        /\ Buffer(p) = 15
        /\ feat[p][1][1] = 1000 * tile_bounds[p][3]

====
